---- MODULE Spec2Model ----
(***************************************************************************)
(* rShell (src/src/main.rs): the read-eval loop, the pipeline executor,    *)
(* the history store and the cd builtin, as a state machine.               *)
(*                                                                         *)
(* Text is a sequence of one-character strings.  The line editor's history *)
(* is the ordered list the source pushes to, clears and iterates over; the *)
(* history file is the text the source writes, one entry per line.         *)
(* The directory tree, HOME and the set of installed programs are fixed    *)
(* for a run.  HISTSIZE and HISTFILESIZE are 1500 and 2200 in the source   *)
(* (main.rs:13-14); here they are scaled down to MaxEntries and            *)
(* MaxEntries + 1, which keeps HISTSIZE < HISTFILESIZE.                    *)
(***************************************************************************)
EXTENDS Integers, Sequences, FiniteSets, TLC

\* The scale of the two history caps.
MaxEntries == 2

\* const HISTSIZE (1500), scaled.
HISTSIZE == MaxEntries

\* const HISTFILESIZE (2200), scaled.
HISTFILESIZE == MaxEntries + 1

(***************************************************************************)
(* Text helpers: str::trim, str::split, str::split_whitespace.             *)
(***************************************************************************)
NL == "\n"

IsWhitespace(c) == c \in {" ", "\t", NL}

RECURSIVE TrimStart(_)
TrimStart(s) ==
    IF s # <<>> /\ IsWhitespace(Head(s)) THEN TrimStart(Tail(s)) ELSE s

RECURSIVE TrimEnd(_)
TrimEnd(s) ==
    IF s # <<>> /\ IsWhitespace(s[Len(s)])
    THEN TrimEnd(SubSeq(s, 1, Len(s) - 1))
    ELSE s

Trim(s) == TrimEnd(TrimStart(s))

StartsWith(s, c) == s # <<>> /\ Head(s) = c

\* Mutant of Split: split_once, the text is cut at the first sep only.
SplitOnce(s, sep) ==
    IF \A i \in 1..Len(s) : s[i] # sep
    THEN <<s>>
    ELSE LET i == CHOOSE j \in 1..Len(s) :
                    s[j] = sep /\ \A k \in 1..(j - 1) : s[k] # sep
         IN  <<SubSeq(s, 1, i - 1), SubSeq(s, i + 1, Len(s))>>

\* str::split(sep): k occurrences of sep give k+1 pieces, empty ones kept.
RECURSIVE Split(_, _)
Split(s, sep) ==
    IF \A i \in 1..Len(s) : s[i] # sep
    THEN <<s>>
    ELSE LET i == CHOOSE j \in 1..Len(s) :
                    s[j] = sep /\ \A k \in 1..(j - 1) : s[k] # sep
         IN  <<SubSeq(s, 1, i - 1)>> \o Split(SubSeq(s, i + 1, Len(s)), sep)

\* str::split_whitespace: the maximal runs of non-whitespace, in order.
RECURSIVE SplitWhitespace(_)
SplitWhitespace(s) ==
    LET t == TrimStart(s)
    IN  IF t = <<>>
        THEN <<>>
        ELSE LET n == CHOOSE j \in 1..Len(t) :
                        /\ \A k \in 1..j : ~IsWhitespace(t[k])
                        /\ (j = Len(t) \/ IsWhitespace(t[j + 1]))
             IN  <<SubSeq(t, 1, n)>> \o SplitWhitespace(SubSeq(t, n + 1, Len(t)))

LastN(s, n) == IF Len(s) > n THEN SubSeq(s, Len(s) - n + 1, Len(s)) ELSE s

RECURSIVE Concat(_)
Concat(ss) == IF ss = <<>> THEN <<>> ELSE Head(ss) \o Concat(Tail(ss))

(***************************************************************************)
(* The words the source matches on, the environment and the file system.   *)
(***************************************************************************)
W_cd == <<"c", "d">>

W_pwd == <<"p", "w", "d">>

W_help == <<"h", "e", "l", "p">>

W_exit == <<"e", "x", "i", "t">>

W_history == <<"h", "i", "s", "t", "o", "r", "y">>

A_c == <<"-", "c">>

A_w == <<"-", "w">>

A_dash == <<"-">>

A_L == <<"-", "L">>

A_x == <<"-", "x">>

W_ls == <<"l", "s">>

W_wc == <<"w", "c">>

W_nx == <<"n", "x">>

SP == <<" ">>

BAR == <<"|">>

\* HOME, and the directories that exist.
Home == <<"/", "h">>

Root == <<"/">>

Dirs == {Root, Home, Home \o <<"/", "a">>, <<"/", "t">>}

\* The programs Command::spawn finds.
Programs == {W_ls, W_wc}

AlnumChars ==
    {"a", "b", "c", "d", "e", "f", "g", "h", "i", "j", "k", "l", "m", "n",
     "o", "p", "q", "r", "s", "t", "u", "v", "w", "x", "y", "z",
     "A", "B", "C", "D", "E", "F", "G", "H", "I", "J", "K", "L", "M", "N",
     "O", "P", "Q", "R", "S", "T", "U", "V", "W", "X", "Y", "Z",
     "0", "1", "2", "3", "4", "5", "6", "7", "8", "9"}

\* The length of the variable name that follows a '$'.
RECURSIVE VarNameLen(_)
VarNameLen(s) ==
    IF s # <<>> /\ (Head(s) \in AlnumChars \/ Head(s) = "_")
    THEN 1 + VarNameLen(Tail(s))
    ELSE 0

EnvValue(name, cwd) ==
    CASE name = <<"H", "O", "M", "E">> -> Home
      [] name = <<"P", "A", "T", "H">> -> <<"/", "b">>
      [] name = <<"U", "S", "E", "R">> -> <<"u">>
      [] name = <<"P", "W", "D">> -> cwd
      [] name = <<"L", "A", "N", "G">> -> <<"C">>
      [] OTHER ->
            <<"U", "N", "K", "N", "O", "W", "N", " ", "Y", "E", "T", " ",
              "V", "A", "R", "I", "A", "B", "L", "E", ":", " ", "$">> \o name

RECURSIVE expand_env_variables(_, _)
expand_env_variables(input, cwd) ==
    IF input = <<>>
    THEN <<>>
    ELSE IF Head(input) = "$"
         THEN LET rest == Tail(input)
                  n == VarNameLen(rest)
              IN  EnvValue(SubSeq(rest, 1, n), cwd)
                    \o expand_env_variables(SubSeq(rest, n + 1, Len(rest)), cwd)
         ELSE <<Head(input)>> \o expand_env_variables(Tail(input), cwd)

(***************************************************************************)
(* The history store.                                                      *)
(***************************************************************************)
\* rl.add_history_entry(line): the entry goes to the end of the list.
add_history_entry(h, line) == Append(h, line)

\* Mutant of clear_history: the list is left as it is.
clear_keeps(h) == h

\* rl.clear_history().
clear_history(h) == <<>>

RECURSIVE AddAll(_, _)
AddAll(h, entries) ==
    IF entries = <<>>
    THEN h
    ELSE AddAll(add_history_entry(h, Head(entries)), Tail(entries))

\* Mutant of trim_shell_history: keeps the oldest HISTSIZE entries.
trim_keeps_oldest(h) ==
    AddAll(clear_history(h), SubSeq(h, 1, IF Len(h) > HISTSIZE THEN HISTSIZE ELSE Len(h)))

\* trim_shell_history: the list is emptied and the last HISTSIZE entries
\* are put back in order.
trim_shell_history(h) ==
    LET start == IF Len(h) > HISTSIZE THEN Len(h) - HISTSIZE ELSE 0
        trimmed == SubSeq(h, start + 1, Len(h))
    IN  AddAll(clear_history(h), trimmed)

\* Mutant of accept: looks for the leading space in the trimmed text.
accept_tests_trimmed(h, input) ==
    LET trimmed == Trim(input)
    IN  IF trimmed # <<>> /\ ~StartsWith(trimmed, " ")
        THEN trim_shell_history(add_history_entry(h, trimmed))
        ELSE h

\* Mutant of accept: the line is not recorded when it is read (it would be
\* added after its segments ran).
accept_never(h, input) == h

\* The accept step of rshell_loop.
accept(h, input) ==
    LET trimmed == Trim(input)
    IN  IF trimmed # <<>> /\ ~StartsWith(input, " ")
        THEN trim_shell_history(add_history_entry(h, trimmed))
        ELSE h

\* Mutant of WriteLines: write! for writeln!, no newline after an entry.
WriteNoNewline(entries) == Concat(entries)

\* writeln!(writer, "{}", entry) for each entry, into an emptied file.
RECURSIVE WriteLines(_)
WriteLines(entries) ==
    IF entries = <<>>
    THEN <<>>
    ELSE Head(entries) \o <<NL>> \o WriteLines(Tail(entries))

\* The text save_shell_history leaves in the file once it has opened it.
save_shell_history(h) ==
    LET total == Len(h)
        start == IF total > HISTFILESIZE THEN total - HISTFILESIZE ELSE 0
    IN  WriteLines(SubSeq(h, start + 1, total))

\* The lines of a text file: each ends at a newline, a last unterminated
\* line counts, and no empty line follows the final newline.
ReadLines(text) ==
    LET pieces == Split(text, NL)
    IN  IF pieces[Len(pieces)] = <<>>
        THEN SubSeq(pieces, 1, Len(pieces) - 1)
        ELSE pieces

\* rl.load_history(path) into the new editor: the lines of the file become
\* the entries; a file that does not exist reads as the empty text.
load_history(text) == AddAll(<<>>, ReadLines(text))

(***************************************************************************)
(* The cd builtin.                                                         *)
(***************************************************************************)
\* PathBuf::join.
Join(base, rel) ==
    IF rel = <<>> THEN base
    ELSE IF Head(rel) = "/" THEN rel
    ELSE IF base[Len(base)] = "/" THEN base \o rel
    ELSE base \o <<"/">> \o rel

\* str::trim_start_matches("~/").
RECURSIVE TrimStartTildeSlash(_)
TrimStartTildeSlash(p) ==
    IF Len(p) >= 2 /\ p[1] = "~" /\ p[2] = "/"
    THEN TrimStartTildeSlash(SubSeq(p, 3, Len(p)))
    ELSE p

Event(fd, msg, arg) == [fd |-> fd, msg |-> msg, arg |-> arg]

\* env::set_current_dir(dest) from cwd succeeds when the directory exists.
DirExists(cwd, dest) == Join(cwd, dest) \in Dirs

\* Mutant of change_dir: records the directory it moved to.
change_dir_records_new(dest, cwd, oldpwd, msgs) ==
    IF DirExists(cwd, dest)
    THEN [cwd |-> Join(cwd, dest), oldpwd |-> <<Join(cwd, dest)>>, msgs |-> msgs]
    ELSE [cwd |-> cwd, oldpwd |-> oldpwd,
          msgs |-> Append(msgs, Event(2, "Occured error in builtin cd", dest))]

\* Mutant of change_dir: records the current directory before it knows
\* whether the change succeeded.
change_dir_records_first(dest, cwd, oldpwd, msgs) ==
    IF DirExists(cwd, dest)
    THEN [cwd |-> Join(cwd, dest), oldpwd |-> <<cwd>>, msgs |-> msgs]
    ELSE [cwd |-> cwd, oldpwd |-> <<cwd>>,
          msgs |-> Append(msgs, Event(2, "Occured error in builtin cd", dest))]

\* The end of run_builtin_cd: change the directory and, only when that
\* succeeded, record the directory that was current.  oldpwd is <<>> (None)
\* or <<dir>> (Some).
change_dir(dest, cwd, oldpwd, msgs) ==
    IF DirExists(cwd, dest)
    THEN [cwd |-> Join(cwd, dest), oldpwd |-> <<cwd>>, msgs |-> msgs]
    ELSE [cwd |-> cwd, oldpwd |-> oldpwd,
          msgs |-> Append(msgs, Event(2, "Occured error in builtin cd", dest))]

\* run_builtin_cd: the working directory, the previous directory and the
\* messages after the call.
run_builtin_cd(args, cwd, oldpwd) ==
    IF args = <<>>
    THEN IF cwd = Home
         THEN [cwd |-> cwd, oldpwd |-> oldpwd, msgs |-> <<>>]
         ELSE change_dir(Home, cwd, oldpwd, <<>>)
    ELSE LET path == Head(args)
         IN  IF path = A_dash
             THEN IF oldpwd # <<>>
                  THEN change_dir(oldpwd[1], cwd, oldpwd,
                                  <<Event(1, "Previous path is", oldpwd[1])>>)
                  ELSE [cwd |-> cwd, oldpwd |-> oldpwd,
                        msgs |-> <<Event(2, "cd: previous directory is not set!", <<>>)>>]
             ELSE IF StartsWith(path, "~")
             THEN IF path = <<"~">> \/ path = <<"~", "/">>
                  THEN change_dir(Home, cwd, oldpwd, <<>>)
                  ELSE change_dir(Join(Home, TrimStartTildeSlash(path)), cwd, oldpwd, <<>>)
             ELSE change_dir(path, cwd, oldpwd, <<>>)

(***************************************************************************)
(* The other builtins' output.                                             *)
(***************************************************************************)
PhysicalFlags ==
    {<<"-", "P">>, <<"-", "p">>,
     <<"-", "-", "p", "h", "y", "s", "i", "c", "a", "l">>}

LogicalFlags ==
    {<<"-", "L">>, <<"-", "l">>,
     <<"-", "-", "l", "o", "g", "i", "c", "a", "l">>}

HelpFlags == {<<"-", "h">>, <<"-", "-", "h", "e", "l", "p">>}

\* The for loop of run_builtin_pwd over its arguments: the flags seen so
\* far, or the first argument that is no flag.
RECURSIVE PwdScan(_, _)
PwdScan(args, st) ==
    IF args = <<>>
    THEN st
    ELSE LET a == Head(args)
         IN  IF a \in PhysicalFlags
             THEN PwdScan(Tail(args), [st EXCEPT !.physical = TRUE])
             ELSE IF a \in LogicalFlags
             THEN PwdScan(Tail(args), [st EXCEPT !.physical = FALSE])
             ELSE IF a \in HelpFlags
             THEN PwdScan(Tail(args), [st EXCEPT !.show_help = TRUE])
             ELSE [st EXCEPT !.bad = <<a>>]

\* run_builtin_pwd.  The shell never sets PWD, so -L prints the directory
\* the shell was started in, which is Home.
run_builtin_pwd(args, cwd) ==
    LET st == PwdScan(args, [physical |-> TRUE, show_help |-> FALSE, bad |-> <<>>])
    IN  IF st.bad # <<>>
        THEN <<Event(2, "built-in pwd: unrecognized option", st.bad[1])>>
        ELSE IF st.show_help
        THEN <<Event(1, "Usage: pwd [OPTION]", <<>>)>>
        ELSE <<Event(1, "pwd", IF st.physical THEN cwd ELSE Home)>>

\* The listing of `history` without arguments: number and entry, for the
\* last HISTSIZE entries.
HistoryListing(h) ==
    LET start == IF Len(h) > HISTSIZE THEN Len(h) - HISTSIZE ELSE 0
    IN  [i \in 1..(Len(h) - start) |-> <<start + i, h[start + i]>>]

(***************************************************************************)
(* The state.                                                              *)
(***************************************************************************)
VARIABLES
    history,        \* rl.history(): the HistoryBuffer
    file,           \* the text of ~/.rshell_history
    cwd,            \* the process's working directory
    oldpwd,         \* Option<PathBuf>: <<>> or <<dir>>
    pc,             \* "read", "exec", "wait", "exited", "panicked"
    input,          \* the line readline returned
    hist0,          \* the HistoryBuffer when that line was returned
    dir0,           \* cwd and oldpwd when that line was returned
    commands,       \* the pieces of expand_input.split('|')
    pos,            \* how many of them the while loop has taken
    prev_command,   \* Option<Child>: <<>> or <<pid>>
    procs,          \* the processes spawned for this line, by pid
    waited,         \* the pids the shell has waited on for this line
    dispatched,     \* the indexes of the segments whose command was matched
    log             \* what the shell printed since readline returned

vars ==
    <<history, file, cwd, oldpwd, pc, input, hist0, dir0, commands, pos,
      prev_command, procs, waited, dispatched, log>>

lineVars == <<input, hist0, dir0, commands, pos, prev_command, procs, waited, dispatched>>

\* Dropping a Child closes the read end of its stdout pipe if the shell
\* still holds it.
Drop(ps, prev) ==
    IF prev # <<>> /\ ps[prev[1]].rd = "shell"
    THEN [ps EXCEPT ![prev[1]].rd = "closed"]
    ELSE ps

\* Mutant of Persist: the file is opened for append, not truncated.
PersistAppends(h, nextPc) ==
    \E openOk \in BOOLEAN :
        IF openOk
        THEN file' = file \o save_shell_history(h) /\ pc' = nextPc
        ELSE file' = file /\ pc' = "panicked"

\* save_shell_history as a step: OpenOptions::open(..).unwrap() panics when
\* the file cannot be opened, else the file is emptied and rewritten.
Persist(h, nextPc) ==
    \E openOk \in BOOLEAN :
        IF openOk
        THEN file' = save_shell_history(h) /\ pc' = nextPc
        ELSE file' = file /\ pc' = "panicked"

\* pc after a segment that does not end the loop.
AfterSegment == IF pos + 1 < Len(commands) THEN "exec" ELSE "wait"

(***************************************************************************)
(* rshell_loop: one action per readline outcome, one per iteration of the  *)
(* while loop over the segments, one for the wait after it.                *)
(***************************************************************************)
\* readline returned Ok(input): accept, expand, split.
ReadLineOk(Lines) ==
    /\ pc = "read"
    /\ \E line \in Lines :
        /\ input' = line
        /\ hist0' = history
        /\ dir0' = [cwd |-> cwd, oldpwd |-> oldpwd]
        /\ history' = accept(history, line)
        /\ commands' = Split(expand_env_variables(Trim(line), cwd), "|")
    /\ pos' = 0
    /\ prev_command' = <<>>
    /\ procs' = <<>>
    /\ waited' = <<>>
    /\ dispatched' = <<>>
    /\ log' = <<>>
    /\ pc' = "exec"
    /\ UNCHANGED <<file, cwd, oldpwd>>

\* Mutant of ReadInterrupted: break for continue, as for the other errors.
ReadInterruptedBreaks ==
    /\ pc = "read"
    /\ log' = <<Event(1, "SIGINT captured!", <<>>)>>
    /\ Persist(history, "exited")
    /\ UNCHANGED <<history, cwd, oldpwd, lineVars>>

\* ReadlineError::Interrupted.
ReadInterrupted ==
    /\ pc = "read"
    /\ log' = <<Event(1, "SIGINT captured!", <<>>)>>
    /\ UNCHANGED <<history, file, cwd, oldpwd, pc, lineVars>>

\* ReadlineError::Eof.
ReadEof ==
    /\ pc = "read"
    /\ log' = <<Event(1, "Captured Ctrl + D (EOF), terminating...", <<>>)>>
    /\ Persist(history, "exited")
    /\ UNCHANGED <<history, cwd, oldpwd, lineVars>>

\* Any other ReadlineError.
ReadError ==
    /\ pc = "read"
    /\ log' = <<Event(1, "Error:", <<>>)>>
    /\ Persist(history, "exited")
    /\ UNCHANGED <<history, cwd, oldpwd, lineVars>>

\* Mutant of SkipEmpty: break for continue, the loop ends at the hole.
SkipEmptyBreaks ==
    /\ log' = Append(log, Event(2, "Error!!! Empty command in pipeline segment!", <<>>))
    /\ pc' = "wait"
    /\ UNCHANGED <<history, file, cwd, oldpwd, prev_command, procs, dispatched>>

\* A segment without a command: reported and skipped.
SkipEmpty ==
    /\ log' = Append(log, Event(2, "Error!!! Empty command in pipeline segment!", <<>>))
    /\ pc' = AfterSegment
    /\ UNCHANGED <<history, file, cwd, oldpwd, prev_command, procs, dispatched>>

BuiltinCd(args) ==
    LET r == run_builtin_cd(args, cwd, oldpwd)
    IN  /\ cwd' = r.cwd
        /\ oldpwd' = r.oldpwd
        /\ log' = log \o r.msgs
        /\ prev_command' = <<>>
        /\ procs' = Drop(procs, prev_command)
        /\ pc' = AfterSegment
        /\ UNCHANGED <<history, file>>

BuiltinPwd(args) ==
    /\ log' = log \o run_builtin_pwd(args, cwd)
    /\ prev_command' = <<>>
    /\ procs' = Drop(procs, prev_command)
    /\ pc' = AfterSegment
    /\ UNCHANGED <<history, file, cwd, oldpwd>>

BuiltinHelp ==
    /\ log' = Append(log, Event(1, "help", <<>>))
    /\ prev_command' = <<>>
    /\ procs' = Drop(procs, prev_command)
    /\ pc' = AfterSegment
    /\ UNCHANGED <<history, file, cwd, oldpwd>>

\* Mutant of BuiltinExit: returns without saving the history.
BuiltinExitNoSave ==
    /\ pc' = "exited"
    /\ prev_command' = <<>>
    /\ procs' = Drop(procs, prev_command)
    /\ UNCHANGED <<history, file, cwd, oldpwd, log>>

\* "exit": save the history and return from rshell_loop.
BuiltinExit ==
    /\ Persist(history, "exited")
    /\ prev_command' = <<>>
    /\ procs' = Drop(procs, prev_command)
    /\ UNCHANGED <<history, cwd, oldpwd, log>>

\* run_builtin_history; prev_command is left as it is.
run_builtin_history(args) ==
    /\ IF args = <<A_c>>
       THEN /\ history' = clear_history(history)
            /\ Persist(clear_history(history), AfterSegment)
            /\ log' = IF pc' = "panicked" THEN log
                      ELSE Append(log, Event(1, "History cleared.", <<>>))
       ELSE IF args = <<A_w>>
       THEN /\ history' = history
            /\ Persist(history, AfterSegment)
            /\ log' = IF pc' = "panicked" THEN log
                      ELSE Append(log, Event(1, "History was written to file.", <<>>))
       ELSE IF args = <<>>
       THEN /\ log' = Append(log, Event(1, "history", HistoryListing(history)))
            /\ pc' = AfterSegment
            /\ UNCHANGED <<history, file>>
       ELSE /\ log' = Append(log, Event(2, "Usage: history [-c] or [-w]", <<>>))
            /\ pc' = AfterSegment
            /\ UNCHANGED <<history, file>>
    /\ UNCHANGED <<cwd, oldpwd, prev_command, procs>>

\* Command::new(command).stdin(..).stdout(..).spawn() succeeds for the
\* programs that exist.
SpawnOk(command) == command \in Programs

\* Mutant of AfterSpawn: a failed spawn leaves prev_command as it was.
AfterSpawnKeeps(ok, pid, prev) == IF ok THEN <<pid>> ELSE prev

\* prev_command after the spawn: the new child, or None when it failed.
AfterSpawn(ok, pid, prev) == IF ok THEN <<pid>> ELSE <<>>

\* Mutant of External: the previous stage's stdout is handed over as a
\* duplicate (try_clone), the shell keeping its own handle.
ExternalClones(command, more) ==
    LET piped == prev_command # <<>> /\ procs[prev_command[1]].rd = "shell"
        stdin == IF piped THEN prev_command[1] ELSE 0
        pid == Len(procs) + 1
        ok == SpawnOk(command)
    IN  /\ procs' = IF ok
                    THEN Append(procs,
                                [seg |-> pos + 1, cmd |-> command, stdin |-> stdin,
                                 stdout |-> IF more THEN "piped" ELSE "inherit",
                                 rd |-> IF more THEN "shell" ELSE "none"])
                    ELSE procs
        /\ prev_command' = AfterSpawn(ok, pid, prev_command)
        /\ log' = IF ok THEN log ELSE Append(log, Event(2, "spawn error", command))
        /\ pc' = AfterSegment
        /\ UNCHANGED <<history, file, cwd, oldpwd>>

\* Any other command: an external program.
External(command, more) ==
    LET piped == prev_command # <<>> /\ procs[prev_command[1]].rd = "shell"
        stdin == IF piped THEN prev_command[1] ELSE 0
        pid == Len(procs) + 1
        ok == SpawnOk(command)
        taken == IF piped
                 THEN [procs EXCEPT ![stdin].rd = IF ok THEN "child" ELSE "closed"]
                 ELSE procs
    IN  /\ procs' = IF ok
                    THEN Append(taken,
                                [seg |-> pos + 1, cmd |-> command, stdin |-> stdin,
                                 stdout |-> IF more THEN "piped" ELSE "inherit",
                                 rd |-> IF more THEN "shell" ELSE "none"])
                    ELSE taken
        /\ prev_command' = AfterSpawn(ok, pid, prev_command)
        /\ log' = IF ok THEN log ELSE Append(log, Event(2, "spawn error", command))
        /\ pc' = AfterSegment
        /\ UNCHANGED <<history, file, cwd, oldpwd>>

\* One iteration of `while let Some(command) = commands.next()`.
ExecSegment ==
    /\ pc = "exec"
    /\ pos < Len(commands)
    /\ pos' = pos + 1
    /\ UNCHANGED <<input, hist0, dir0, commands, waited>>
    /\ LET parts == SplitWhitespace(Trim(commands[pos + 1]))
       IN  IF parts = <<>>
           THEN SkipEmpty
           ELSE LET command == Head(parts)
                    args == Tail(parts)
                IN  /\ dispatched' = Append(dispatched, pos + 1)
                    /\ CASE command = W_cd -> BuiltinCd(args)
                         [] command = W_pwd -> BuiltinPwd(args)
                         [] command = W_help -> BuiltinHelp
                         [] command = W_exit -> BuiltinExit
                         [] command = W_history -> run_builtin_history(args)
                         [] OTHER -> External(command, pos + 1 < Len(commands))

\* After the loop: wait for prev_command, if there is one.
Wait ==
    /\ pc = "wait"
    /\ waited' = IF prev_command # <<>> THEN Append(waited, prev_command[1]) ELSE waited
    /\ procs' = Drop(procs, prev_command)
    /\ prev_command' = <<>>
    /\ pc' = "read"
    /\ UNCHANGED <<history, file, cwd, oldpwd, input, hist0, dir0, commands, pos,
                   dispatched, log>>

\* The shell is started again: a new editor loads the history file.
Start ==
    /\ pc \in {"exited", "panicked"}
    /\ history' = load_history(file)
    /\ hist0' = history'
    /\ dir0' = [cwd |-> Home, oldpwd |-> <<>>]
    /\ oldpwd' = <<>>
    /\ cwd' = Home
    /\ input' = <<>>
    /\ commands' = <<>>
    /\ pos' = 0
    /\ prev_command' = <<>>
    /\ procs' = <<>>
    /\ waited' = <<>>
    /\ dispatched' = <<>>
    /\ log' = <<>>
    /\ pc' = "read"
    /\ UNCHANGED file

InitWith(Files) ==
    /\ file \in Files
    /\ history = load_history(file)
    /\ hist0 = history
    /\ dir0 = [cwd |-> Home, oldpwd |-> <<>>]
    /\ cwd = Home
    /\ oldpwd = <<>>
    /\ pc = "read"
    /\ input = <<>>
    /\ commands = <<>>
    /\ pos = 0
    /\ prev_command = <<>>
    /\ procs = <<>>
    /\ waited = <<>>
    /\ dispatched = <<>>
    /\ log = <<>>

(***************************************************************************)
(* The lines typed and the history files found at startup, per             *)
(* specification.                                                          *)
(***************************************************************************)
Cmd2(w, a) == w \o SP \o a

Pipe(a, b) == a \o SP \o BAR \o SP \o b

L_history_c == Cmd2(W_history, A_c)

L_history_w == Cmd2(W_history, A_w)

\* Five of these lines are recorded; the others are empty or begin with a
\* space.
HistoryLines ==
    {W_ls, SP \o W_ls, <<"\t">> \o W_wc \o SP, <<>>, SP \o SP,
     W_history, L_history_c, SP \o L_history_c, SP \o L_history_w,
     SP \o Cmd2(W_history, A_x), W_exit, SP \o Pipe(W_exit, W_ls)}

\* A history file longer than this shell writes (left by another program).
LongHistory == [i \in 1..(HISTFILESIZE + 1) |-> IF i % 2 = 1 THEN W_ls ELSE W_wc]

\* A history file as this shell leaves it at HISTFILESIZE entries.
FullHistory == SubSeq(LongHistory, 1, HISTFILESIZE)

HistoryFiles == {<<>>, WriteLines(FullHistory), WriteLines(LongHistory)}

PipeLines ==
    {SP \o Pipe(W_ls, W_wc),
     Pipe(W_nx, W_wc),
     SP \o Pipe(W_ls, Pipe(W_nx, W_wc)),
     SP \o Pipe(W_ls, Pipe(W_wc, W_wc)),
     SP \o BAR \o SP \o W_ls,
     SP \o W_ls \o SP \o BAR,
     SP \o W_ls \o BAR \o BAR \o W_wc,
     SP \o Pipe(W_ls, W_history),
     SP \o Pipe(W_ls, Pipe(W_history, W_wc)),
     SP \o Pipe(W_ls, Pipe(W_help, W_wc)),
     SP \o Pipe(W_ls, Pipe(Cmd2(W_pwd, A_L), W_wc)),
     SP \o Pipe(W_ls, Pipe(W_cd, W_wc)),
     SP \o Pipe(W_nx, Pipe(W_pwd, W_wc)),
     SP \o Pipe(W_ls, Pipe(W_exit, W_wc)),
     SP \o Pipe(W_ls, Pipe(L_history_w, W_wc)),
     SP \o W_ls \o SP \o <<"$", "X">>,
     SP}

PipeFiles == {<<>>}

CdLines ==
    {SP \o W_cd,
     SP \o Cmd2(W_cd, A_dash),
     SP \o Cmd2(W_cd, <<"/", "t">>),
     SP \o Cmd2(W_cd, <<"a">>),
     SP \o Cmd2(W_cd, <<"~">>),
     SP \o Cmd2(W_cd, <<"~", "/", "a">>),
     SP \o Cmd2(W_cd, <<"/", "n", "x">>),
     SP \o Cmd2(W_cd, <<"$", "H", "O", "M", "E">>),
     SP \o Cmd2(W_cd, <<"$", "P", "W", "D">>),
     SP \o Cmd2(W_cd, <<"/">>),
     SP \o Pipe(Cmd2(W_cd, A_dash), Cmd2(W_cd, A_dash)),
     SP \o Pipe(Cmd2(W_cd, <<"/", "t">>), Cmd2(W_cd, A_dash)),
     Pipe(W_ls, Cmd2(W_cd, <<"/", "t">>)),
     SP \o Cmd2(W_pwd, A_x),
     W_exit}

CdFiles == {<<>>}

Step(Lines) ==
    \/ ReadLineOk(Lines)
    \/ ReadInterrupted
    \/ ReadEof
    \/ ReadError
    \/ ExecSegment
    \/ Wait
    \/ Start

\* The history store: lines that record, clear, list and persist.
Init == InitWith(HistoryFiles)

Next == Step(HistoryLines)

Spec == Init /\ [][Next]_vars

\* The pipeline executor.
InitPipe == InitWith(PipeFiles)

NextPipe == Step(PipeLines)

SpecPipe == InitPipe /\ [][NextPipe]_vars

\* The cd builtin.
InitCd == InitWith(CdFiles)

NextCd == Step(CdLines)

SpecCd == InitCd /\ [][NextCd]_vars

TypeOK ==
    /\ pc \in {"read", "exec", "wait", "exited", "panicked"}
    /\ pos \in 0..Len(commands)
    /\ Len(oldpwd) <= 1
    /\ Len(prev_command) <= 1
    /\ cwd \in Dirs

(***************************************************************************)
(* The claims.                                                             *)
(***************************************************************************)
\* A line the accept step records: not empty once trimmed, no leading space.
Recorded(line) == Trim(line) # <<>> /\ ~StartsWith(line, " ")

\* The step that takes a line from readline.
AcceptStep == pc = "read" /\ pc' = "exec"

LastMsg == IF log = <<>> THEN "" ELSE log[Len(log)].msg

\* The step printed msg as its last message.
Printed(msg) == Len(log') = Len(log) + 1 /\ log'[Len(log')].msg = msg

C2_LeadingSpaceNotRecorded ==
    [][(AcceptStep /\ StartsWith(input', " ")) => history' = history]_vars

C2_Witness ==
    /\ pc = "exec" /\ pos = 0
    /\ StartsWith(input, " ") /\ Trim(input) = L_history_c
    /\ hist0 # <<>> /\ history = hist0

\* A step in which save_shell_history ran and returned.
PersistReturned ==
    \/ pc \in {"read", "exec"} /\ pc' = "exited"
    \/ Printed("History cleared.")
    \/ Printed("History was written to file.")

\* C3: after every persist the lines of the file are exactly the last
\* HISTFILESIZE entries of the buffer (all of them when there are fewer), in
\* buffer order; nothing of the old file is left.
C3_PersistReplacesFile ==
    [][PersistReturned => ReadLines(file') = LastN(history', HISTFILESIZE)]_vars

\* A buffer longer than the file cap was persisted over a longer file.
C3_Witness ==
    /\ pc = "exited"
    /\ Len(history) > HISTFILESIZE
    /\ Len(ReadLines(file)) = HISTFILESIZE
    /\ ReadLines(file) = LastN(history, HISTFILESIZE)

\* C4: when a session that ended by persisting is followed by a new one,
\* the new session starts with the persisted buffer's last HISTFILESIZE
\* entries, in the same order.
C4_RoundTrip ==
    [][(pc = "exited" /\ pc' = "read") => history' = LastN(history, HISTFILESIZE)]_vars

\* A new session whose loaded buffer ends with the `exit` typed in the last.
C4_Witness ==
    /\ pc = "read" /\ commands = <<>>
    /\ Len(history) = HISTSIZE
    /\ history[HISTSIZE] = W_exit
    /\ history[1] = W_wc

\* C5: when `history -c` returns, the buffer is empty, the file holds no
\* entry and a load of it gives the empty sequence.
C5_ClearIsPersisted ==
    [][Printed("History cleared.")
         => /\ history' = <<>>
            /\ ReadLines(file') = <<>>
            /\ load_history(file') = <<>>]_vars

\* `history -c` was typed, recorded, and then cleared with the rest.
C5_Witness ==
    /\ LastMsg = "History cleared."
    /\ Recorded(input) /\ Trim(input) = L_history_c
    /\ hist0 # <<>>
    /\ history = <<>> /\ file = <<>>

\* The words of segment i of the line.
SegParts(i) == SplitWhitespace(Trim(commands[i]))

BuiltinNames == {W_cd, W_pwd, W_help, W_exit, W_history}

ExternalSeg(i) == SegParts(i) # <<>> /\ Head(SegParts(i)) \notin BuiltinNames

HasProc(i) == \E k \in 1..Len(procs) : procs[k].seg = i

\* Segment i named an external program and no process came of it.
FailedSpawn(i) == i <= pos /\ ExternalSeg(i) /\ ~HasProc(i)

\* The segments among the first n that have a command, in order.
WithCommand(n) == SelectSeq([i \in 1..n |-> i], LAMBDA i : SegParts(i) # <<>>)

\* The final stage of the line: its last segment that has a command (a
\* trailing hole, as in `ls |`, is no stage).
FinalStage == WithCommand(Len(commands))[Len(WithCommand(Len(commands)))]

\* C6: the shell waits on a child only when the final stage of the line
\* was a spawned external process, and then on that stage's process.
C6_WaitsOnlyOnFinalSegment ==
    \A i \in 1..Len(waited) : procs[waited[i]].seg = FinalStage

\* The loop is at an external segment whose program does not exist.
SpawnFails ==
    /\ pc = "exec" /\ pos < Len(commands)
    /\ ExternalSeg(pos + 1)
    /\ Head(SegParts(pos + 1)) \notin Programs

\* C7: a failed spawn is reported on stderr, leaves no previous stage, and
\* the loop goes on to the next segment; the next external process spawned
\* after it inherits the shell's stdin.
C7_SpawnFailureDegrades ==
    /\ [][SpawnFails
            => /\ Printed("spawn error") /\ log'[Len(log')].fd = 2
               /\ prev_command' = <<>>
               /\ pos' = pos + 1
               /\ pc' = IF pos' < Len(commands) THEN "exec" ELSE "wait"]_vars
    /\ [](\A k \in 1..Len(procs) : \A i \in 1..(procs[k].seg - 1) :
            (FailedSpawn(i) /\ \A j \in (i + 1)..(procs[k].seg - 1) : ~HasProc(j))
                => procs[k].stdin = 0)

\* `ls | nx | wc`: nx failed, the pipe from ls was closed, wc inherits stdin.
C7_Witness ==
    /\ Len(procs) = 2
    /\ procs[1].seg = 1 /\ procs[1].rd = "closed"
    /\ FailedSpawn(2)
    /\ procs[2].seg = 3 /\ procs[2].stdin = 0
    /\ LastMsg = "spawn error"

\* C8: an empty segment is skipped and nothing else: the segments
\* dispatched so far are exactly the ones taken so far that have a command,
\* in textual order, and the loop ends only when every segment was taken
\* (or at `exit`).  The exit status of a stage is never read before the
\* loop ends, so a stage that exits nonzero changes nothing here.
C8_OtherSegmentsStillDispatched ==
    /\ dispatched = WithCommand(pos)
    /\ pc \in {"wait", "read"} => pos = Len(commands)

\* ` | ls`: the hole was reported, ls was dispatched and spawned.
C8_Witness ==
    /\ pc = "wait" /\ Len(commands) = 2
    /\ SegParts(1) = <<>>
    /\ dispatched = <<2>>
    /\ Len(procs) = 1 /\ procs[1].cmd = W_ls /\ procs[1].seg = 2
    /\ log[1].msg = "Error!!! Empty command in pipeline segment!"

\* The loop is at a cd segment; its arguments.
CdStep ==
    /\ pc = "exec" /\ pos < Len(commands)
    /\ SegParts(pos + 1) # <<>> /\ Head(SegParts(pos + 1)) = W_cd

CdArgs == Tail(SegParts(pos + 1))

\* The cd printed an error.
CdFailed == CdStep /\ log' # log /\ log'[Len(log')].fd = 2

\* `cd` without argument in the home directory: nothing to change.
CdAlreadyHome == CdStep /\ CdArgs = <<>> /\ cwd = Home

CdSucceeded == CdStep /\ ~CdFailed /\ ~CdAlreadyHome

OnlyPreviousPath(n) ==
    /\ Len(log) = n
    /\ \A i \in 1..n : log[i].msg = "Previous path is"

\* C9: a cd that changes the directory records the directory it left, and
\* `cd -` goes to the recorded one; so `cd X | cd -` ends where it began,
\* and `cd - | cd -` ends with cwd and oldpwd as they were.
C9_CdRecordsPrevious ==
    /\ [][CdSucceeded
            => /\ oldpwd' = <<cwd>>
               /\ (CdArgs # <<>> /\ Head(CdArgs) = A_dash) => cwd' = oldpwd[1]]_vars
    /\ []((/\ pc = "wait" /\ Len(commands) = 2
           /\ SegParts(1) = <<W_cd, <<"/", "t">>>> /\ SegParts(2) = <<W_cd, A_dash>>)
             => cwd = dir0.cwd /\ oldpwd = <<(<<"/", "t">>)>>)
    /\ []((/\ pc = "wait" /\ Len(commands) = 2
           /\ SegParts(1) = <<W_cd, A_dash>> /\ SegParts(2) = <<W_cd, A_dash>>
           /\ OnlyPreviousPath(2))
             => cwd = dir0.cwd /\ oldpwd = dir0.oldpwd)

\* `cd - | cd -` from /t with /h/a recorded: back in /t, /h/a recorded.
C9_Witness ==
    /\ pc = "wait" /\ Len(commands) = 2
    /\ SegParts(1) = <<W_cd, A_dash>> /\ SegParts(2) = <<W_cd, A_dash>>
    /\ OnlyPreviousPath(2)
    /\ dir0.cwd = <<"/", "t">> /\ dir0.oldpwd = <<Home \o <<"/", "a">>>>
    /\ cwd = dir0.cwd /\ oldpwd = dir0.oldpwd

\* The argument of the cd is a plain path that names no directory.
CdToMissing ==
    /\ CdStep /\ CdArgs # <<>>
    /\ Head(CdArgs) # A_dash /\ ~StartsWith(Head(CdArgs), "~")
    /\ Join(cwd, Head(CdArgs)) \notin Dirs

\* C10: a cd that fails (`cd -` with nothing recorded, a target the OS
\* rejects) prints an error and leaves cwd and oldpwd as they were.
C10_FailedCdChangesNothing ==
    /\ [][CdFailed => cwd' = cwd /\ oldpwd' = oldpwd]_vars
    /\ [][(CdToMissing \/ (CdStep /\ CdArgs = <<A_dash>> /\ oldpwd = <<>>))
            => CdFailed /\ cwd' = cwd /\ oldpwd' = oldpwd]_vars

\* `cd /nx` in /t with /h recorded: the error, and nothing moved.
C10_Witness ==
    /\ LastMsg = "Occured error in builtin cd"
    /\ SegParts(pos) = <<W_cd, <<"/", "n", "x">>>>
    /\ cwd = <<"/", "t">> /\ oldpwd = <<Home>>
    /\ cwd = dir0.cwd /\ oldpwd = dir0.oldpwd

\* C11: a history file that cannot be opened never crashes the shell.
C11_PersistFailureNotFatal == pc # "panicked"

Terminated == pc \in {"exited", "panicked"}

\* C12: the loop terminates only at an `exit` segment, at end of input or
\* at a read error; no other step of a line ends it.
C12_OnlyExitOrReadEndTerminates ==
    [][(~Terminated /\ Terminated')
         => \/ pc = "read"
            \/ /\ pc = "exec" /\ pos < Len(commands)
               /\ SplitWhitespace(Trim(commands[pos + 1])) # <<>>
               /\ Head(SplitWhitespace(Trim(commands[pos + 1]))) = W_exit]_vars

\* C13: the step that ends the loop through `exit` or end of input leaves
\* the buffer as it was and the file holding its last HISTFILESIZE entries;
\* so at termination file and buffer agree, the recorded `exit` line
\* included.
C13_TerminationPersists ==
    /\ [][(~Terminated /\ pc' = "exited")
            => /\ history' = history
               /\ ReadLines(file') = LastN(history, HISTFILESIZE)]_vars
    /\ [](pc = "exited" => ReadLines(file) = LastN(history, HISTFILESIZE))
    /\ [][(pc = "exec" /\ pc' = "exited" /\ Recorded(input)
             /\ history = accept(hist0, input))
            => /\ history' # <<>> /\ file' # <<>>
               /\ history'[Len(history')] = Trim(input)
               /\ ReadLines(file')[Len(ReadLines(file'))] = Trim(input)]_vars

\* `exit` typed on a full buffer: recorded, persisted, and the loop is over.
C13_Witness ==
    /\ pc = "exited" /\ pos = 1
    /\ input = W_exit
    /\ Len(hist0) >= HISTSIZE /\ hist0 # history
    /\ history[Len(history)] = W_exit
    /\ ReadLines(file) = history

\* The step is an interrupted read.
InterruptStep == pc = "read" /\ log' = <<Event(1, "SIGINT captured!", <<>>)>>

\* C14: an interrupted read changes neither the buffer, the file, the
\* working directory nor the previous directory, spawns nothing, and the
\* loop is still reading.
C14_InterruptChangesNothing ==
    [][InterruptStep
         => /\ UNCHANGED <<history, file, cwd, oldpwd, procs, prev_command, waited>>
            /\ pc' = "read"]_vars

\* An interrupt with unsaved entries in the buffer: still there, not saved.
C14_Witness ==
    /\ pc = "read"
    /\ log = <<Event(1, "SIGINT captured!", <<>>)>>
    /\ Len(history) = HISTSIZE
    /\ ReadLines(file) # history

\* The number of places of s that hold c.
Count(s, c) == Cardinality({i \in 1..Len(s) : s[i] = c})

\* The pieces put back together with sep between them.
RECURSIVE JoinWith(_, _)
JoinWith(ss, sep) ==
    IF Len(ss) = 1 THEN ss[1]
    ELSE ss[1] \o <<sep>> \o JoinWith(Tail(ss), sep)

\* The text handed to split('|'): the trimmed line after expansion.
Expanded == expand_env_variables(Trim(input), dir0.cwd)

\* C15: the segments are the pipe-delimited pieces of the line, in order:
\* one more than there are pipes, none of them holding a pipe, empty pieces
\* kept; for a line without `$` that is the count of pipes typed.
C15_OneSegmentPerPiece ==
    pc \in {"exec", "wait"}
      => /\ Len(commands) = Count(Expanded, "|") + 1
         /\ \A i \in 1..Len(commands) : Count(commands[i], "|") = 0
         /\ JoinWith(commands, "|") = Expanded
         /\ Count(input, "$") = 0 => Len(commands) = Count(input, "|") + 1

\* ` ls||wc`: two pipes, three segments, the middle one empty.
C15_Witness ==
    /\ pc = "exec"
    /\ Count(input, "|") = 2
    /\ Len(commands) = 3
    /\ commands[2] = <<>>
    /\ commands[3] = W_wc

\* The builtins of the claim: every builtin but `exit`, which returns.
ResettingBuiltins == {W_cd, W_pwd, W_help, W_history}

BuiltinSeg(i) == SegParts(i) # <<>> /\ Head(SegParts(i)) \in ResettingBuiltins

\* C16: once a builtin segment was processed the executor holds no previous
\* stage, and the process of an external segment right after a builtin has
\* inherited stdin.
C16_BuiltinDropsPrevious ==
    pc \in {"exec", "wait"}
      => /\ (pos >= 1 /\ BuiltinSeg(pos)) => prev_command = <<>>
         /\ \A k \in 1..Len(procs) :
                (procs[k].seg > 1 /\ BuiltinSeg(procs[k].seg - 1))
                    => procs[k].stdin = 0

\* The processes whose stdout read end the shell holds.
Held == {k \in 1..Len(procs) : procs[k].rd = "shell"}

\* C17: the executor holds at most one read end, that of prev_command; a
\* read end given to a stage as stdin came from an earlier stage, is no
\* longer held, and is given to no other stage; a spawned stage takes the
\* held read end, or inherits stdin when none is held.
C17_SingleEndpointOwner ==
    /\ [](/\ Cardinality(Held) <= 1
          /\ \A k \in Held : prev_command = <<k>>
          /\ \A k \in 1..Len(procs) :
                procs[k].stdin # 0
                    => /\ procs[k].stdin < k
                       /\ procs[procs[k].stdin].stdout = "piped"
                       /\ procs[k].stdin \notin Held
                       /\ \A j \in 1..Len(procs) :
                              j # k => procs[j].stdin # procs[k].stdin)
    /\ [][(pc = "exec" /\ Len(procs') = Len(procs) + 1)
            => LET new == procs'[Len(procs')]
               IN  /\ Held = {} => new.stdin = 0
                   /\ \A k \in Held : new.stdin = k /\ procs'[k].rd = "child"]_vars

\* ` ls | wc | wc`: each read end went to the next stage and nowhere else.
C17_Witness ==
    /\ Len(procs) = 3
    /\ procs[1].stdin = 0 /\ procs[2].stdin = 1 /\ procs[3].stdin = 2
    /\ procs[1].rd = "child" /\ procs[2].rd = "child"
    /\ Held = {}

\* C18: a recorded line is in the buffer, as its newest entry and with the
\* cap restored, when the line is taken and before any of its segments is
\* dispatched, so a listing made by the line ends with the line itself; an
\* empty or whitespace-only line leaves the buffer as it was.
C18_AcceptBeforeExecution ==
    /\ [][AcceptStep
            => /\ pos' = 0 /\ dispatched' = <<>>
               /\ Recorded(input')
                    => /\ history' # <<>>
                       /\ history'[Len(history')] = Trim(input')
                       /\ Len(history') <= HISTSIZE
               /\ Trim(input') = <<>> => history' = history]_vars
    /\ [][(pc = "exec" /\ Printed("history") /\ Recorded(input)
             /\ history = accept(hist0, input))
            => LET shown == log'[Len(log')].arg
               IN  /\ shown # <<>>
                   /\ shown[Len(shown)] = <<Len(history), Trim(input)>>]_vars
    /\ []((pc \in {"exec", "wait"} /\ Trim(input) = <<>>) => history = hist0)

\* `history` typed on a full buffer: the listing ends with `history`.
C18_Witness ==
    /\ LastMsg = "history"
    /\ input = W_history
    /\ Len(hist0) >= HISTSIZE
    /\ hist0[Len(hist0)] # W_history
    /\ log[Len(log)].arg[HISTSIZE] = <<HISTSIZE, W_history>>

C20_NoWaitOnUnreadPipe ==
    ~(/\ pc = "wait"
      /\ prev_command # <<>>
      /\ procs[prev_command[1]].stdout = "piped"
      /\ procs[prev_command[1]].rd = "shell")

====
